---- MODULE Spec2Model ----
(***************************************************************************)
(* Holmes-Gateway master gateway (src/mastergateway/mastergateway.go).     *)
(*                                                                         *)
(* One request-handling goroutine (task submission or sample proxy) and    *)
(* the key-directory watcher goroutine, sharing the keys map and its       *)
(* mutex.  The handler is modelled statement group by statement group with *)
(* a program counter; the network peers (partner organizations, storage)   *)
(* are the environment and answer nondeterministically.                    *)
(***************************************************************************)
EXTENDS Integers, Sequences, FiniteSets, TLC

(***************************************************************************)
(* Bounds of the model.                                                    *)
(***************************************************************************)
MaxBatch == 3        \* longest task batch a client submits
MaxEvents == 3       \* watcher events delivered in one behaviour
MaxCallBatch == 2    \* longest task batch where uploads are served as well

(***************************************************************************)
(* Configuration (src/config-master.json.example).                         *)
(***************************************************************************)
Organizations ==
  << [Name |-> "Org1", Uri |-> "http://localhost:8080/task/", Sources |-> <<"foo", "bar">>],
     [Name |-> "Org2", Uri |-> "http://localhost:8081/task/", Sources |-> <<"blub">>] >>

OwnOrganization == "Org1"

StorageURI == "http://10.0.4.79:8017/samples/"

\* bcrypt digest of a password under a salt: the digest embeds its salt, and
\* two digests agree only for the same salt and password.
BcryptDigest(salt, password) == <<"$2a$06$", salt, password>>

AllowedUsers ==
  << [Name |-> "test",  PasswordHash |-> BcryptDigest("fLcXyZ", "secret"),  Id |-> 0],
     [Name |-> "test2", PasswordHash |-> BcryptDigest("Aa0h6q", "hunter2"), Id |-> 1] >>

\* The two configurations of AutoTasks a deployment can have: none, or the
\* analyzers of the example file.
AutoTaskConfigs == { {}, {"PEINFO", "YARA"} }

(***************************************************************************)
(* Inputs.                                                                 *)
(***************************************************************************)
Sources == {"foo", "bar", "blub", "nix", "zip"}     \* nix, zip: no organization
Usernames == {"test", "test2", "eve"}               \* eve: not an allowed user
TaskUsernames == {"test", "eve"}                    \* the names task batches come under
Passwords == {"secret", "hunter2"}
Names == {"a.exe"}
Sha256s == {"9f86d0"}
Fingerprints == {"foo", "bar", "blub"}              \* key files <fingerprint>.pub

\* tasking.Task, with the fields the gateway reads or sets
SubmittedTask(source) ==
  [PrimaryURI |-> "http://files/x", Filename |-> "x.bin", Source |-> source,
   Download |-> FALSE]

Task == {SubmittedTask(s) : s \in Sources}

RECURSIVE SeqsUpTo(_, _)
SeqsUpTo(S, n) ==
  IF n = 0 THEN {<<>>}
  ELSE LET shorter == SeqsUpTo(S, n - 1)
       IN  shorter \cup {Append(q, x) : q \in {r \in shorter : Len(r) = n - 1}, x \in S}

Batches == SeqsUpTo(Task, MaxBatch)

NoOrg == 0     \* a nil *tasking.Organization

VARIABLES
  keys,        \* map fingerprint -> public key (a key is named by its load number)
  keysMutex,   \* holder of keysMutex: "free", "handler" or "watcher"
  crashed,     \* the Go runtime aborted the process
  autoTasks,   \* conf.AutoTasks (names of the configured analyzers)
  ownOrganization, \* the own organization found at startup (line 44)
  hpc,         \* position of the request-handling goroutine
  req,         \* the request being served
  ht,          \* locals of handleTask
  stl,         \* locals of sendTaskList / encryptTicket / encryptKey / requestTaskList
  rt,          \* locals of myTransport.RoundTrip
  sent,        \* requests issued to organizations during the current call
  inflight,    \* requests to organizations awaiting their response
  forwarded,   \* requests forwarded to storage during the current call
  http,        \* what the HTTP handler answered last
  wpc,         \* position of the watcher goroutine
  wev,         \* the watcher event being handled
  loads,       \* number of key files loaded so far
  eventsLeft,  \* watcher events still to come
  lastDone,    \* per fingerprint, the last callback that completed
  removed,     \* the entries that were deleted from, or replaced in, the map
  lk           \* bookkeeping of the handler's current key lookup

vars == << keys, keysMutex, crashed, autoTasks, ownOrganization, hpc, req, ht, stl, rt, sent,
           inflight, forwarded, http, wpc, wev, loads, eventsLeft, lastDone,
           removed, lk >>

handlerVars == << hpc, req, ht, stl, rt, sent, inflight, forwarded, http >>
watcherVars == << wpc, wev, loads, eventsLeft, lastDone, removed >>

(***************************************************************************)
(* Startup: initSourceRouting and initUsers.                               *)
(***************************************************************************)
RECURSIVE RouteSources(_, _, _, _)
RouteSources(srcs, i, num, router) ==
  IF i > Len(srcs) THEN router
  ELSE RouteSources(srcs, i + 1, num, (srcs[i] :> num) @@ router)

RECURSIVE RouteOrganizations(_, _)
RouteOrganizations(num, router) ==
  IF num > Len(Organizations) THEN router
  ELSE RouteOrganizations(num + 1,
         RouteSources(Organizations[num].Sources, 1, num, router))

\* srcRouter: source -> organization (the index of the record in
\* conf.Organizations stands for the pointer to it).
srcRouter == RouteOrganizations(1, <<>>)

\* lines 428-430: the organization whose name is conf.OwnOrganization
RECURSIVE FindOwn(_, _, _)
FindOwn(name, num, own) ==
  IF num > Len(Organizations) THEN own
  ELSE FindOwn(name, num + 1,
         IF Organizations[num].Name = name THEN num ELSE own)

\* Start going on to serve whatever initSourceRouting found
StartPcServes(own) == "idle"

\* lines 434-436: log.Fatal ends the process before Start goes on to serve
StartPc(own) == IF own = NoOrg THEN "fatal" ELSE "idle"

RECURSIVE UsersFrom(_, _)
UsersFrom(u, m) ==
  IF u > Len(AllowedUsers) THEN m
  ELSE UsersFrom(u + 1, (AllowedUsers[u].Name :> AllowedUsers[u]) @@ m)

users == UsersFrom(1, <<>>)

(***************************************************************************)
(* authenticate                                                            *)
(***************************************************************************)
NoUser == [Name |-> "", PasswordHash |-> <<>>, Id |-> -1]
AuthFailed == "Authentication failed"

\* bcrypt.CompareHashAndPassword: nil exactly when the digest is the digest
\* of the password under the digest's own salt.
CompareHashAndPassword(hash, password) ==
  Len(hash) = 3 /\ hash = BcryptDigest(hash[2], password)

\* authenticate telling an unknown user from a wrong password
authenticateTellsUnknown(username, password) ==
  IF username \notin DOMAIN users
  THEN [user |-> NoUser, err |-> "Unknown user"]
  ELSE IF ~CompareHashAndPassword(users[username].PasswordHash, password)
       THEN [user |-> NoUser, err |-> AuthFailed]
       ELSE [user |-> users[username], err |-> ""]

authenticate(username, password) ==
  IF username \notin DOMAIN users
  THEN [user |-> NoUser, err |-> AuthFailed]
  ELSE IF ~CompareHashAndPassword(users[username].PasswordHash, password)
       THEN [user |-> NoUser, err |-> AuthFailed]
       ELSE [user |-> users[username], err |-> ""]

(***************************************************************************)
(* Values                                                                  *)
(***************************************************************************)
NoTask == [PrimaryURI |-> "", Filename |-> "", Source |-> "", Download |-> FALSE]

\* A byte string holding JSON text: either well-formed text denoting a
\* value, or bytes no JSON decoder accepts.
JsonText(value) == [wellFormed |-> TRUE, value |-> value]
Malformed == [wellFormed |-> FALSE, value |-> <<>>]

TaskError(task, error) == [TaskStruct |-> task, Error |-> error]

TicketSignKeyName == "sign"
SymKeys == {"k1"}                       \* values of the 16 random key bytes
IVLen == 16
IVFirstBytes == {0, 255}                \* values of the first random IV byte
IVs == { [i \in 1..IVLen |-> IF i = 1 THEN b ELSE 7] : b \in IVFirstBytes }

\* b ^ 1 on a byte
Xor1(b) == IF b % 2 = 0 THEN b + 1 ELSE b - 1

\* The first byte counted up instead
FlipIVAdds(iv) == [iv EXCEPT ![1] = (iv[1] + 1) % 256]

\* line 116: encryptedTicket.IV[0] ^= 1
FlipIV(iv) == [iv EXCEPT ![1] = Xor1(iv[1])]

\* tasking.AesEncrypt / tasking.AesDecrypt: a ciphertext decrypts to its
\* plaintext under the key and IV it was made with, and to bytes without
\* meaning under any other.
AesEncrypt(plain, key, iv) == [key |-> key, iv |-> iv, plain |-> plain]
AesDecrypt(cipher, key, iv) ==
  IF cipher.key = key /\ cipher.iv = iv THEN cipher.plain ELSE Malformed
NoCipher == [key |-> "", iv |-> <<>>, plain |-> Malformed]

\* tasking.RsaEncrypt: the session key wrapped for one public key
RsaEncrypt(symKey, asymKey) == [pub |-> asymKey, wrapped |-> symKey]
NoWrapped == [pub |-> 0, wrapped |-> ""]

Base64(bytes) == <<"base64", bytes>>

\* tasking.Encrypted
NoEncrypted == [KeyFingerprint |-> "", EncryptedKey |-> NoWrapped,
                Encrypted |-> NoCipher, IV |-> <<>>]

HtInit == [tasks |-> <<>>, tasklists |-> <<>>, pending |-> {}, tskerrors |-> <<>>,
           origin |-> <<>>, order |-> <<>>, results |-> <<>>, auth |-> [user |-> NoUser, err |-> ""],
           err |-> "", errsNil |-> FALSE]

StlInit == [caller |-> "", org |-> NoOrg, tasks |-> <<>>, uri |-> "", asymKeyId |-> "",
            symKey |-> "", iv |-> <<>>, ticketM |-> Malformed, asymKey |-> 0,
            exists |-> FALSE, et |-> NoEncrypted, err |-> "", result |-> Malformed,
            resultNil |-> TRUE, readErr |-> ""]

\* url.URL: scheme, host and path in one string, and the query parameters
EmptyURL == [base |-> "", query |-> <<>>]

\* storageResponse, as far as RoundTrip reads it
ZeroResponse == [ResponseCode |-> 0, Sha256 |-> ""]

\* What a call of sendTaskList returned
NoOutcome == [returned |-> FALSE, err |-> "", resultNil |-> TRUE]

\* The locals of RoundTrip; reqURL is the URL the handler left in the
\* request, calls the calls of sendTaskList made so far, outcome what the
\* last of them returned.
RtInit == [name |-> "", source |-> "", user |-> NoUser, reqURL |-> EmptyURL,
           url |-> EmptyURL, body |-> Malformed, resp |-> ZeroResponse, err |-> "",
           respNil |-> TRUE, calls |-> <<>>, outcome |-> NoOutcome]

LkInit == [active |-> FALSE, f |-> "", done |-> [op |-> "none", key |-> 0],
           removed |-> {}, since |-> {}]

NoReq == [kind |-> "none", username |-> "", password |-> "", taskOk |-> FALSE,
          tasks |-> <<>>, name |-> "", source |-> "", bodyOk |-> FALSE, userId |-> ""]

NoHttp == [status |-> 0, body |-> <<>>]

(***************************************************************************)
(* handleTask                                                              *)
(***************************************************************************)
\* httpRequestIncomingTask up to the call of handleTask: a client submits
\* a batch from B (or text that is no JSON) under a user name from U.
HttpRequestIncomingTask(B, U) ==
  /\ hpc = "idle" /\ ~crashed
  /\ \E u \in U, p \in Passwords, ok \in BOOLEAN, b \in B :
       /\ (~ok => b = <<>>)
       /\ req' = [NoReq EXCEPT !.kind = "task", !.username = u, !.password = p,
                               !.taskOk = ok, !.tasks = b]
  /\ ht' = HtInit /\ stl' = StlInit /\ rt' = RtInit
  /\ sent' = <<>> /\ inflight' = {} /\ forwarded' = <<>> /\ http' = NoHttp
  /\ hpc' = "ht_auth"
  /\ UNCHANGED << keys, keysMutex, crashed, autoTasks, ownOrganization, watcherVars, lk >>

\* handleTask going on after a failed authentication
HTAuthenticateIgnoresFailure ==
  /\ hpc = "ht_auth" /\ ~crashed
  /\ ht' = [ht EXCEPT !.auth = authenticate(req.username, req.password)]
  /\ hpc' = "ht_parse"
  /\ UNCHANGED << keys, keysMutex, crashed, autoTasks, ownOrganization, req, stl, rt, sent, inflight,
                  forwarded, http, watcherVars, lk >>

\* lines 140-145
HTAuthenticate ==
  /\ hpc = "ht_auth" /\ ~crashed
  /\ LET res == authenticate(req.username, req.password) IN
       IF res.err # ""
       THEN /\ ht' = [ht EXCEPT !.auth = res, !.err = res.err, !.errsNil = TRUE]
            /\ hpc' = "ht_ret"
       ELSE /\ ht' = [ht EXCEPT !.auth = res]
            /\ hpc' = "ht_parse"
  /\ UNCHANGED << keys, keysMutex, crashed, autoTasks, ownOrganization, req, stl, rt, sent, inflight,
                  forwarded, http, watcherVars, lk >>

\* lines 146-152: json.Unmarshal of the task form value
HTParse ==
  /\ hpc = "ht_parse" /\ ~crashed
  /\ IF ~req.taskOk
     THEN /\ ht' = [ht EXCEPT !.err = "invalid character", !.errsNil = FALSE]
          /\ hpc' = "ht_ret"
     ELSE /\ ht' = [ht EXCEPT !.tasks = req.tasks]
          /\ hpc' = "ht_partition"
  /\ UNCHANGED << keys, keysMutex, crashed, autoTasks, ownOrganization, req, stl, rt, sent, inflight,
                  forwarded, http, watcherVars, lk >>

NoRouteError == "No route for source!"

\* lines 157-173: the loop over the tasks, from task i on.  acc.tasklists
\* is the map organization -> tasks, acc.tskerrors the error list, and
\* acc.origin names, for each error, the group it stems from (NoOrg: none).
\* The loop with tasklists[org] = []Task{task} also for a group that exists
RECURSIVE PartitionLoopOverwrite(_, _, _)
PartitionLoopOverwrite(tasks, i, acc) ==
  IF i > Len(tasks) THEN acc
  ELSE LET task == tasks[i] IN
       IF task.Source \notin DOMAIN srcRouter
       THEN PartitionLoopOverwrite(tasks, i + 1,
              [acc EXCEPT !.tskerrors = Append(@, TaskError(task, NoRouteError)),
                          !.origin = Append(@, NoOrg)])
       ELSE PartitionLoopOverwrite(tasks, i + 1,
              [acc EXCEPT !.tasklists = (srcRouter[task.Source] :> <<task>>) @@ @])

RECURSIVE PartitionLoop(_, _, _)
PartitionLoop(tasks, i, acc) ==
  IF i > Len(tasks) THEN acc
  ELSE LET task == tasks[i] IN
       IF task.Source \notin DOMAIN srcRouter
       THEN PartitionLoop(tasks, i + 1,
              [acc EXCEPT !.tskerrors = Append(@, TaskError(task, NoRouteError)),
                          !.origin = Append(@, NoOrg)])
       ELSE LET org == srcRouter[task.Source] IN
            IF org \notin DOMAIN acc.tasklists
            THEN PartitionLoop(tasks, i + 1,
                   [acc EXCEPT !.tasklists = (org :> <<task>>) @@ @])
            ELSE PartitionLoop(tasks, i + 1,
                   [acc EXCEPT !.tasklists = [@ EXCEPT ![org] = Append(@, task)]])

HTPartition ==
  /\ hpc = "ht_partition" /\ ~crashed
  /\ LET acc == PartitionLoop(ht.tasks, 1,
                  [tasklists |-> <<>>, tskerrors |-> ht.tskerrors, origin |-> ht.origin])
     IN  ht' = [ht EXCEPT !.tasklists = acc.tasklists, !.tskerrors = acc.tskerrors,
                          !.origin = acc.origin, !.pending = DOMAIN acc.tasklists]
  /\ hpc' = "ht_range"
  /\ UNCHANGED << keys, keysMutex, crashed, autoTasks, ownOrganization, req, stl, rt, sent, inflight,
                  forwarded, http, watcherVars, lk >>

\* The organizations a range over the map tasklists may yield next: Go
\* iterates a map in an unspecified order.
RangeNext(pending) == pending

\* The range handing the whole batch to sendTaskList
HTNextGroupWholeBatch ==
  /\ hpc = "ht_range" /\ ~crashed
  /\ ht.pending # {}
  /\ \E org \in RangeNext(ht.pending) :
       /\ ht' = [ht EXCEPT !.pending = @ \ {org}, !.order = Append(@, org)]
       /\ stl' = [StlInit EXCEPT !.caller = "task", !.org = org, !.tasks = ht.tasks]
  /\ hpc' = "stl_begin"
  /\ UNCHANGED << keys, keysMutex, crashed, autoTasks, ownOrganization, req, rt, sent, inflight,
                  forwarded, http, watcherVars, lk >>

\* The range coming back to an organization it has served already
HTNextGroupAgain ==
  /\ hpc = "ht_range" /\ ~crashed
  /\ ht.pending # {}
  /\ \E org \in RangeNext(ht.pending) :
       /\ ht' = [ht EXCEPT !.order = Append(@, org)]
       /\ stl' = [StlInit EXCEPT !.caller = "task", !.org = org,
                                 !.tasks = ht.tasklists[org]]
  /\ hpc' = "stl_begin"
  /\ UNCHANGED << keys, keysMutex, crashed, autoTasks, ownOrganization, req, rt, sent, inflight,
                  forwarded, http, watcherVars, lk >>

\* lines 175-176: the next iteration of the range over tasklists calls
\* sendTaskList(tasklist, org)
HTNextGroup ==
  /\ hpc = "ht_range" /\ ~crashed
  /\ ht.pending # {}
  /\ \E org \in RangeNext(ht.pending) :
       /\ ht' = [ht EXCEPT !.pending = @ \ {org}, !.order = Append(@, org)]
       /\ stl' = [StlInit EXCEPT !.caller = "task", !.org = org,
                                 !.tasks = ht.tasklists[org]]
  /\ hpc' = "stl_begin"
  /\ UNCHANGED << keys, keysMutex, crashed, autoTasks, ownOrganization, req, rt, sent, inflight,
                  forwarded, http, watcherVars, lk >>

\* json.Unmarshal of the decrypted answer into []tasking.TaskError
UnmarshalOk(bytes) == bytes.wellFormed

SyntaxError == "unexpected end of JSON input"

\* The errors of a failed group put in front of one another
RECURSIVE SyntheticErrorsReversed(_, _, _)
SyntheticErrorsReversed(tasklist, i, text) ==
  IF i > Len(tasklist) THEN <<>>
  ELSE SyntheticErrorsReversed(tasklist, i + 1, text) \o <<TaskError(tasklist[i], text)>>

RECURSIVE SyntheticErrors(_, _, _)
SyntheticErrors(tasklist, i, text) ==
  IF i > Len(tasklist) THEN <<>>
  ELSE <<TaskError(tasklist[i], text)>> \o SyntheticErrors(tasklist, i + 1, text)

\* lines 177-199: what one group adds to tskerrors, given the (err, bytes)
\* that sendTaskList returned for it
GroupErrors(tasklist, err, bytes) ==
  IF err # ""
  THEN SyntheticErrors(tasklist, 1, "Error while sending task! " \o err)
  ELSE IF ~UnmarshalOk(bytes)
       THEN SyntheticErrors(tasklist, 1, "Error while parsing result! " \o SyntaxError)
       ELSE bytes.value

\* handleTask returning the error of a failed group
HTCollectAborts ==
  /\ hpc = "ht_collect" /\ ~crashed
  /\ LET new == GroupErrors(stl.tasks, stl.err, stl.result) IN
       ht' = [ht EXCEPT !.tskerrors = IF stl.err # "" THEN @ ELSE @ \o new,
                        !.origin = IF stl.err # "" THEN @
                                   ELSE @ \o [i \in 1..Len(new) |-> stl.org],
                        !.err = stl.err,
                        !.results = Append(@, [org |-> stl.org, err |-> stl.err,
                                               wellFormed |-> stl.result.wellFormed])]
  /\ stl' = StlInit
  /\ hpc' = IF stl.err # "" THEN "ht_ret" ELSE "ht_range"
  /\ UNCHANGED << keys, keysMutex, crashed, autoTasks, ownOrganization, req, rt, sent, inflight,
                  forwarded, http, watcherVars, lk >>

\* lines 177-200, after sendTaskList has returned.  ht.results keeps, for
\* each group in turn, what sendTaskList returned for it.
HTCollect ==
  /\ hpc = "ht_collect" /\ ~crashed
  /\ LET new == GroupErrors(stl.tasks, stl.err, stl.result) IN
       ht' = [ht EXCEPT !.tskerrors = @ \o new,
                        !.origin = @ \o [i \in 1..Len(new) |-> stl.org],
                        !.results = Append(@, [org |-> stl.org, err |-> stl.err,
                                               wellFormed |-> stl.result.wellFormed])]
  /\ stl' = StlInit
  /\ hpc' = "ht_range"
  /\ UNCHANGED << keys, keysMutex, crashed, autoTasks, ownOrganization, req, rt, sent, inflight,
                  forwarded, http, watcherVars, lk >>

\* lines 201-202: the range is exhausted
HTReturn ==
  /\ hpc = "ht_range" /\ ~crashed
  /\ ht.pending = {}
  /\ ht' = [ht EXCEPT !.err = "", !.errsNil = FALSE]
  /\ hpc' = "ht_ret"
  /\ UNCHANGED << keys, keysMutex, crashed, autoTasks, ownOrganization, req, stl, rt, sent, inflight,
                  forwarded, http, watcherVars, lk >>

\* json.Marshal of one TaskError
MarshalTaskError(e) == JsonText(e)

\* The records written with one newline between them
RECURSIVE WriteErrorsOneNewline(_, _)
WriteErrorsOneNewline(tskerrors, i) ==
  IF i > Len(tskerrors) THEN <<>>
  ELSE <<MarshalTaskError(tskerrors[i]), "\n">> \o WriteErrorsOneNewline(tskerrors, i + 1)

\* lines 296-300: each record, then two newlines
RECURSIVE WriteErrors(_, _)
WriteErrors(tskerrors, i) ==
  IF i > Len(tskerrors) THEN <<>>
  ELSE <<MarshalTaskError(tskerrors[i]), "\n\n">> \o WriteErrors(tskerrors, i + 1)

\* lines 286-301: httpRequestIncomingTask answers the client
HttpRespondTask ==
  /\ hpc = "ht_ret" /\ ~crashed
  /\ http' = IF ht.err # ""
             THEN [status |-> 500, body |-> <<ht.err, "\n">>]
             ELSE [status |-> 200,
                   body |-> IF ht.errsNil THEN <<>> ELSE WriteErrors(ht.tskerrors, 1)]
  /\ hpc' = "answered"
  /\ UNCHANGED << keys, keysMutex, crashed, autoTasks, ownOrganization, req, ht, stl, rt, sent,
                  inflight, forwarded, watcherVars, lk >>

(***************************************************************************)
(* sendTaskList, createTicket, encryptTicket, encryptKey, requestTaskList  *)
(***************************************************************************)
\* tasking.Sign: a signature is bound to the signed bytes and the key
Sign(msg, key) == <<"sig", key, msg>>

\* createTicket (the expiration time is left out: nothing reads it here)
createTicket(tasks) ==
  LET t == [Tasks |-> tasks, SignerKeyId |-> TicketSignKeyName, Signature |-> <<>>]
  IN  [t EXCEPT !.Signature = Sign(JsonText(t), TicketSignKeyName)]

RandFailure == "rand: read failed"
SignFailure == "sign: read failed"
TransportError == "dial tcp: connection refused"

\* Where sendTaskList returns to
ReturnTo(caller) == IF caller = "task" THEN "ht_collect" ELSE "rt_after"

\* sendTaskList taking the key id from the last task of the group
STLBeginLastSource ==
  /\ hpc = "stl_begin" /\ ~crashed
  /\ IF stl.org = NoOrg \/ Len(stl.tasks) = 0
     THEN \* nil dereference or index out of range: the handler panics and
          \* net/http drops the connection
          /\ hpc' = "answered"
          /\ stl' = StlInit
          /\ http' = [status |-> 0, body |-> <<"panic">>]
          /\ lk' = lk
     ELSE /\ http' = http
          /\ \E failure \in {"", RandFailure, SignFailure} :
               IF failure # ""
               THEN /\ stl' = [stl EXCEPT !.err = failure, !.resultNil = TRUE]
                    /\ hpc' = ReturnTo(stl.caller)
                    /\ lk' = lk
               ELSE \E symKey \in SymKeys, iv \in IVs :
                    /\ stl' = [stl EXCEPT !.uri = Organizations[stl.org].Uri,
                                 !.asymKeyId = stl.tasks[Len(stl.tasks)].Source,
                                 !.symKey = symKey, !.iv = iv,
                                 !.ticketM = JsonText(createTicket(stl.tasks))]
                    /\ hpc' = "ek_lock"
                    /\ lk' = [active |-> TRUE, f |-> stl.tasks[Len(stl.tasks)].Source,
                              done |-> IF stl.tasks[Len(stl.tasks)].Source \in DOMAIN lastDone
                                       THEN lastDone[stl.tasks[Len(stl.tasks)].Source]
                                       ELSE [op |-> "none", key |-> 0],
                              removed |-> removed,
                              since |-> IF wev.f = stl.tasks[Len(stl.tasks)].Source
                                        THEN CASE wpc \in {"rm_unlock", "rm_log"} -> {"remove"}
                                               [] wpc \in {"add_unlock", "add_log"} -> {"add"}
                                               [] OTHER -> {}
                                        ELSE {}]
  /\ UNCHANGED << keys, keysMutex, crashed, autoTasks, ownOrganization, req, ht, rt, sent, inflight,
                  forwarded, watcherVars >>

\* lines 206-237: the key id, the random session key and IV, the signed and
\* marshalled ticket; then encryptTicket calls encryptKey, where the lookup
\* of the public key starts.
STLBegin ==
  /\ hpc = "stl_begin" /\ ~crashed
  /\ IF stl.org = NoOrg \/ Len(stl.tasks) = 0
     THEN \* nil dereference or index out of range: the handler panics and
          \* net/http drops the connection
          /\ hpc' = "answered"
          /\ stl' = StlInit
          /\ http' = [status |-> 0, body |-> <<"panic">>]
          /\ lk' = lk
     ELSE /\ http' = http
          /\ \E failure \in {"", RandFailure, SignFailure} :
               IF failure # ""
               THEN /\ stl' = [stl EXCEPT !.err = failure, !.resultNil = TRUE]
                    /\ hpc' = ReturnTo(stl.caller)
                    /\ lk' = lk
               ELSE \E symKey \in SymKeys, iv \in IVs :
                    /\ stl' = [stl EXCEPT !.uri = Organizations[stl.org].Uri,
                                 !.asymKeyId = stl.tasks[1].Source,
                                 !.symKey = symKey, !.iv = iv,
                                 !.ticketM = JsonText(createTicket(stl.tasks))]
                    /\ hpc' = "ek_lock"
                    /\ lk' = [active |-> TRUE, f |-> stl.tasks[1].Source,
                              done |-> IF stl.tasks[1].Source \in DOMAIN lastDone
                                       THEN lastDone[stl.tasks[1].Source]
                                       ELSE [op |-> "none", key |-> 0],
                              removed |-> removed,
                              since |-> IF wev.f = stl.tasks[1].Source
                                        THEN CASE wpc \in {"rm_unlock", "rm_log"} -> {"remove"}
                                               [] wpc \in {"add_unlock", "add_log"} -> {"add"}
                                               [] OTHER -> {}
                                        ELSE {}]
  /\ UNCHANGED << keys, keysMutex, crashed, autoTasks, ownOrganization, req, ht, rt, sent, inflight,
                  forwarded, watcherVars >>

\* line 66
EKLock ==
  /\ hpc = "ek_lock" /\ ~crashed
  /\ keysMutex = "free"
  /\ keysMutex' = "handler"
  /\ hpc' = "ek_fetch"
  /\ UNCHANGED << keys, crashed, autoTasks, ownOrganization, req, ht, stl, rt, sent, inflight,
                  forwarded, http, watcherVars, lk >>

\* The map read without its second result
EKFetchNoExists ==
  /\ hpc = "ek_fetch" /\ ~crashed
  /\ stl' = [stl EXCEPT !.exists = TRUE,
                        !.asymKey = IF stl.asymKeyId \in DOMAIN keys
                                    THEN keys[stl.asymKeyId] ELSE 0]
  /\ lk' = [lk EXCEPT !.active = FALSE]
  /\ hpc' = "ek_unlock"
  /\ UNCHANGED << keys, keysMutex, crashed, autoTasks, ownOrganization, req, ht, rt, sent, inflight,
                  forwarded, http, watcherVars >>

\* line 67
EKFetch ==
  /\ hpc = "ek_fetch" /\ ~crashed
  /\ stl' = [stl EXCEPT !.exists = stl.asymKeyId \in DOMAIN keys,
                        !.asymKey = IF stl.asymKeyId \in DOMAIN keys
                                    THEN keys[stl.asymKeyId] ELSE 0]
  /\ lk' = [lk EXCEPT !.active = FALSE]
  /\ hpc' = "ek_unlock"
  /\ UNCHANGED << keys, keysMutex, crashed, autoTasks, ownOrganization, req, ht, rt, sent, inflight,
                  forwarded, http, watcherVars >>

\* line 68
EKUnlock ==
  /\ hpc = "ek_unlock" /\ ~crashed
  /\ keysMutex' = "free"
  /\ hpc' = "ek_log"
  /\ UNCHANGED << keys, crashed, autoTasks, ownOrganization, req, ht, stl, rt, sent, inflight,
                  forwarded, http, watcherVars, lk >>

\* The watcher is about to write, or is writing, the map
WatcherWrites == wpc \in {"rm_delete", "add_store"}

KeyNotFound == "Public Key not found"
RsaFailure == "rsa: read failed"

\* lines 69-75 and 81-95: the map is printed without the mutex; a print
\* that meets a write of the watcher is a data race, which the Go runtime
\* may answer by aborting the process ("concurrent map iteration and map
\* write").  Then the key is used: wrapped session key and encrypted ticket.
EKLogAndEncrypt ==
  /\ hpc = "ek_log" /\ ~crashed
  /\ \E abort \in (IF WatcherWrites THEN BOOLEAN ELSE {FALSE}) :
       IF abort
       THEN crashed' = TRUE /\ UNCHANGED << hpc, stl >>
       ELSE /\ crashed' = crashed
            /\ IF ~stl.exists
               THEN /\ stl' = [stl EXCEPT !.err = KeyNotFound, !.resultNil = TRUE]
                    /\ hpc' = ReturnTo(stl.caller)
               ELSE \E failure \in {"", RsaFailure} :
                      IF failure # ""
                      THEN /\ stl' = [stl EXCEPT !.err = failure, !.resultNil = TRUE]
                           /\ hpc' = ReturnTo(stl.caller)
                      ELSE /\ stl' = [stl EXCEPT !.et =
                                 [KeyFingerprint |-> stl.asymKeyId,
                                  EncryptedKey |-> RsaEncrypt(stl.symKey, stl.asymKey),
                                  Encrypted |-> AesEncrypt(stl.ticketM, stl.symKey, stl.iv),
                                  IV |-> stl.iv]]
                           /\ hpc' = "rtl_send"
  /\ lk' = LkInit
  /\ UNCHANGED << keys, keysMutex, autoTasks, ownOrganization, req, ht, rt, sent, inflight,
                  forwarded, http, watcherVars >>

\* lines 99-108: the GET request with the envelope in its query
TaskRequest(org, uri, et) ==
  [org |-> org, uri |-> uri,
   KeyFingerprint |-> et.KeyFingerprint,
   EncryptedKey |-> Base64(et.EncryptedKey),
   IV |-> Base64(et.IV),
   Encrypted |-> Base64(et.Encrypted)]

\* lines 99-111: client.Do issues the request
RTLSend ==
  /\ hpc = "rtl_send" /\ ~crashed
  /\ LET r == TaskRequest(stl.org, stl.uri, stl.et) IN
       /\ sent' = Append(sent, r)
       /\ inflight' = inflight \cup {r}
  /\ hpc' = "rtl_recv"
  /\ UNCHANGED << keys, keysMutex, crashed, autoTasks, ownOrganization, req, ht, stl, rt,
                  forwarded, http, watcherVars, lk >>

\* What an organization may answer about the tasks of a ticket
Replies(tasks) == { <<>>, <<TaskError(tasks[1], "analysis refused")>> }

\* The bodies an organization may send back: an answer encrypted as the
\* protocol asks (same key, first IV byte flipped), an answer encrypted
\* under the request's own IV, or bytes that are no ciphertext of the key.
ResponseBodies(tasks, symKey, iv) ==
  { AesEncrypt(JsonText(reply), symKey, FlipIV(iv)) : reply \in Replies(tasks) }
    \cup { AesEncrypt(JsonText(<<>>), symKey, iv), NoCipher }

\* line 115: the body as read; a read that fails leaves a truncated body
Received(body, readOk) == IF readOk THEN body ELSE NoCipher

\* lines 111-120: client.Do returns; an error of client.Do is returned with
\* no bytes; otherwise the body is read, the error of the read (kept in
\* readErr for the record) is dropped at line 115, the first IV byte is
\* flipped, and the decrypted bytes are returned with the nil error of
\* client.Do
RTLReceive ==
  /\ hpc = "rtl_recv" /\ ~crashed
  /\ inflight' = inflight \ {TaskRequest(stl.org, stl.uri, stl.et)}
  /\ \E transportOk \in BOOLEAN :
       IF ~transportOk
       THEN stl' = [stl EXCEPT !.err = TransportError, !.resultNil = TRUE]
       ELSE \E body \in ResponseBodies(stl.tasks, stl.symKey, stl.iv), readOk \in BOOLEAN :
            /\ (~readOk => body = NoCipher)
            /\ LET ivF == FlipIV(stl.et.IV) IN
               stl' = [stl EXCEPT !.iv = ivF, !.et.IV = ivF,
                                  !.result = AesDecrypt(Received(body, readOk), stl.symKey, ivF),
                                  !.resultNil = FALSE, !.err = "",
                                  !.readErr = IF readOk THEN "" ELSE "unexpected EOF"]
  /\ hpc' = ReturnTo(stl.caller)
  /\ UNCHANGED << keys, keysMutex, crashed, autoTasks, ownOrganization, req, ht, rt, sent,
                  forwarded, http, watcherVars, lk >>

(***************************************************************************)
(* The key-directory watcher: tasking.LoadKeysAndWatch delivers one event  *)
(* at a time to the two callbacks of readKeys.                             *)
(***************************************************************************)
NoEvent == [op |-> "none", f |-> "", key |-> 0]

\* A key file <f>.pub was created or written (add) or deleted (remove)
WatchEvent ==
  /\ wpc = "idle" /\ ~crashed
  /\ eventsLeft > 0
  /\ eventsLeft' = eventsLeft - 1
  /\ \E f \in Fingerprints, op \in {"remove", "add"} :
       /\ wev' = [op |-> op, f |-> f, key |-> 0]
       /\ wpc' = IF op = "remove" THEN "rm_lock" ELSE "add_load"
  /\ UNCHANGED << keys, keysMutex, crashed, autoTasks, ownOrganization, handlerVars, loads,
                  lastDone, removed, lk >>

\* The lookup under way (lk) notes the writes to its fingerprint by
\* callbacks that had not returned when it started
Touched(l, op, f) ==
  IF l.active /\ l.f = f THEN [l EXCEPT !.since = @ \cup {op}] ELSE l

\* line 257
RemoveLock ==
  /\ wpc = "rm_lock" /\ ~crashed
  /\ keysMutex = "free"
  /\ keysMutex' = "watcher"
  /\ wpc' = "rm_delete"
  /\ UNCHANGED << keys, crashed, autoTasks, ownOrganization, handlerVars, wev, loads, eventsLeft,
                  lastDone, removed, lk >>

\* delete(keys, name)
MapDelete(m, name) == [k \in DOMAIN m \ {name} |-> m[k]]

\* The remove callback leaving the entry in the map
RemoveDeleteKeepsEntry ==
  /\ wpc = "rm_delete" /\ ~crashed
  /\ keys' = keys
  /\ removed' = removed \cup (IF wev.f \in DOMAIN keys THEN {<<wev.f, keys[wev.f]>>} ELSE {})
  /\ lk' = Touched(lk, "remove", wev.f)
  /\ wpc' = "rm_unlock"
  /\ UNCHANGED << keysMutex, crashed, autoTasks, ownOrganization, handlerVars, wev, loads,
                  eventsLeft, lastDone >>

\* line 258
RemoveDelete ==
  /\ wpc = "rm_delete" /\ ~crashed
  /\ keys' = MapDelete(keys, wev.f)
  /\ removed' = removed \cup (IF wev.f \in DOMAIN keys THEN {<<wev.f, keys[wev.f]>>} ELSE {})
  /\ lk' = Touched(lk, "remove", wev.f)
  /\ wpc' = "rm_unlock"
  /\ UNCHANGED << keysMutex, crashed, autoTasks, ownOrganization, handlerVars, wev, loads,
                  eventsLeft, lastDone >>

\* line 259
RemoveUnlock ==
  /\ wpc = "rm_unlock" /\ ~crashed
  /\ keysMutex' = "free"
  /\ wpc' = "rm_log"
  /\ UNCHANGED << keys, crashed, autoTasks, ownOrganization, handlerVars, wev, loads, eventsLeft,
                  lastDone, removed, lk >>

\* line 260: the map is printed without the mutex; the callback returns
RemoveLog ==
  /\ wpc = "rm_log" /\ ~crashed
  /\ lastDone' = [lastDone EXCEPT ![wev.f] = [op |-> "remove", key |-> 0]]
  /\ wev' = NoEvent
  /\ wpc' = "idle"
  /\ UNCHANGED << keys, keysMutex, crashed, autoTasks, ownOrganization, handlerVars, loads,
                  eventsLeft, removed, lk >>

\* lines 263-267: tasking.LoadPublicKey reads and parses the file; a file
\* that does not parse is skipped
AddLoad ==
  /\ wpc = "add_load" /\ ~crashed
  /\ \E parsed \in BOOLEAN :
       IF parsed
       THEN /\ loads' = loads + 1
            /\ wev' = [wev EXCEPT !.key = loads + 1]
            /\ wpc' = "add_lock"
       ELSE /\ loads' = loads
            /\ wev' = NoEvent
            /\ wpc' = "idle"
  /\ UNCHANGED << keys, keysMutex, crashed, autoTasks, ownOrganization, handlerVars, eventsLeft,
                  lastDone, removed, lk >>

\* line 269
AddLock ==
  /\ wpc = "add_lock" /\ ~crashed
  /\ keysMutex = "free"
  /\ keysMutex' = "watcher"
  /\ wpc' = "add_store"
  /\ UNCHANGED << keys, crashed, autoTasks, ownOrganization, handlerVars, wev, loads, eventsLeft,
                  lastDone, removed, lk >>

\* keys[name] = key
MapStore(m, name, key) == (name :> key) @@ m

\* line 270
AddStore ==
  /\ wpc = "add_store" /\ ~crashed
  /\ keys' = MapStore(keys, wev.f, wev.key)
  /\ removed' = removed \cup (IF wev.f \in DOMAIN keys THEN {<<wev.f, keys[wev.f]>>} ELSE {})
  /\ lk' = Touched(lk, "add", wev.f)
  /\ wpc' = "add_unlock"
  /\ UNCHANGED << keysMutex, crashed, autoTasks, ownOrganization, handlerVars, wev, loads,
                  eventsLeft, lastDone >>

\* line 271
AddUnlock ==
  /\ wpc = "add_unlock" /\ ~crashed
  /\ keysMutex' = "free"
  /\ wpc' = "add_log"
  /\ UNCHANGED << keys, crashed, autoTasks, ownOrganization, handlerVars, wev, loads, eventsLeft,
                  lastDone, removed, lk >>

\* line 272: the map is printed without the mutex; the callback returns
AddLog ==
  /\ wpc = "add_log" /\ ~crashed
  /\ lastDone' = [lastDone EXCEPT ![wev.f] = [op |-> "add", key |-> wev.key]]
  /\ wev' = NoEvent
  /\ wpc' = "idle"
  /\ UNCHANGED << keys, keysMutex, crashed, autoTasks, ownOrganization, handlerVars, loads,
                  eventsLeft, removed, lk >>

(***************************************************************************)
(* The sample proxy: httpRequestIncomingSample and myTransport.RoundTrip   *)
(***************************************************************************)
ParseURL(text) == [base |-> text, query |-> <<>>]

\* The package-level storageURI (line 45).  initHTTP (line 410) declares
\* a variable of its own with := and never assigns this one.
storageURI == EmptyURL

\* The target of the reverse proxy: initHTTP's own storageURI (lines 410-411)
proxyTarget == ParseURL(StorageURI)

\* The director of httputil.NewSingleHostReverseProxy: scheme and host of
\* the target, the target's path joined with the request's, both queries
Director(target, u) == [base |-> target.base \o u.base, query |-> target.query @@ u.query]

ClientUserIds == {"", "42"}     \* a user_id the client puts in its URL ("": none)

\* The URL of the request as the client sent it
ClientURL(uid) ==
  [base |-> "/samples/",
   query |-> IF uid = "" THEN <<>> ELSE ("user_id" :> <<uid>>)]

\* line 403: *r.URL = storageURI
RewriteURL(u) == storageURI

\* lines 402-405: the request URL is replaced, and the proxy hands the
\* request, through its director, to RoundTrip
HttpRequestIncomingSample ==
  /\ hpc = "idle" /\ ~crashed
  /\ \E u \in Usernames, p \in Passwords, n \in Names, s \in Sources,
        bodyOk \in BOOLEAN, uid \in ClientUserIds :
       req' = [NoReq EXCEPT !.kind = "sample", !.username = u, !.password = p,
                            !.name = n, !.source = s, !.bodyOk = bodyOk, !.userId = uid]
  /\ rt' = [RtInit EXCEPT !.reqURL = RewriteURL(ClientURL(req'.userId)),
                           !.url = Director(proxyTarget, RewriteURL(ClientURL(req'.userId)))]
  /\ ht' = HtInit /\ stl' = StlInit
  /\ sent' = <<>> /\ inflight' = {} /\ forwarded' = <<>> /\ http' = NoHttp
  /\ hpc' = "rt_read"
  /\ UNCHANGED << keys, keysMutex, crashed, autoTasks, ownOrganization, watcherVars, lk >>

\* lines 330-348: the body is read and the form values are taken from it
RTReadForm ==
  /\ hpc = "rt_read" /\ ~crashed
  /\ IF ~req.bodyOk
     THEN /\ rt' = [rt EXCEPT !.err = "unexpected EOF", !.respNil = TRUE]
          /\ hpc' = "rt_ret"
     ELSE /\ rt' = [rt EXCEPT !.name = req.name, !.source = req.source]
          /\ hpc' = "rt_auth"
  /\ UNCHANGED << keys, keysMutex, crashed, autoTasks, ownOrganization, req, ht, stl, sent, inflight,
                  forwarded, http, watcherVars, lk >>

\* RoundTrip going on after a failed authentication
RTAuthenticateIgnoresFailure ==
  /\ hpc = "rt_auth" /\ ~crashed
  /\ rt' = [rt EXCEPT !.user = authenticate(req.username, req.password).user]
  /\ hpc' = "rt_forward"
  /\ UNCHANGED << keys, keysMutex, crashed, autoTasks, ownOrganization, req, ht, stl, sent, inflight,
                  forwarded, http, watcherVars, lk >>

\* lines 350-353
RTAuthenticate ==
  /\ hpc = "rt_auth" /\ ~crashed
  /\ LET res == authenticate(req.username, req.password) IN
       IF res.err # ""
       THEN /\ rt' = [rt EXCEPT !.err = res.err, !.respNil = TRUE]
            /\ hpc' = "rt_ret"
       ELSE /\ rt' = [rt EXCEPT !.user = res.user]
            /\ hpc' = "rt_forward"
  /\ UNCHANGED << keys, keysMutex, crashed, autoTasks, ownOrganization, req, ht, stl, sent, inflight,
                  forwarded, http, watcherVars, lk >>

\* The query handed on as it came
QueryUntouched(query, name, value) == query

\* url.Values.Set: the name's values are replaced by the one value
QuerySet(query, name, value) == (name :> <<value>>) @@ query

\* What storage may answer
StorageBodies ==
  { JsonText([ResponseCode |-> c, Sha256 |-> h]) : c \in {0, 1}, h \in Sha256s }
    \cup {Malformed}

\* line 374: json.Unmarshal into the zero storageResponse, its error dropped
UnmarshalResponse(body) == IF body.wellFormed THEN body.value ELSE ZeroResponse

\* lines 355-374: user_id is set, the request goes to storage, the answer
\* is read and parsed
RTForward ==
  /\ hpc = "rt_forward" /\ ~crashed
  /\ LET url == [rt.url EXCEPT !.query = QuerySet(@, "user_id", ToString(rt.user.Id))] IN
       /\ forwarded' = Append(forwarded, url)
       /\ \E failure \in {"", TransportError, "unexpected EOF"} :
            IF failure # ""
            THEN /\ rt' = [rt EXCEPT !.url = url, !.err = failure, !.respNil = TRUE]
                 /\ hpc' = "rt_ret"
            ELSE \E body \in StorageBodies :
                 /\ rt' = [rt EXCEPT !.url = url, !.body = body,
                                     !.resp = UnmarshalResponse(body), !.respNil = FALSE]
                 /\ hpc' = "rt_inspect"
  /\ UNCHANGED << keys, keysMutex, crashed, autoTasks, ownOrganization, req, ht, stl, sent, inflight,
                  http, watcherVars, lk >>

\* lines 380-389
AutoTask(resp, name, source) ==
  [PrimaryURI |-> StorageURI \o resp.Sha256, Filename |-> name, Source |-> source,
   Download |-> TRUE]

\* sendTaskList(tasks, org) is entered
CallSendTaskList(caller, tasks, org) ==
  [StlInit EXCEPT !.caller = caller, !.org = org, !.tasks = tasks]

\* The automatic tasks sent to the organization the source routes to
RTInspectRoutesBySource ==
  /\ hpc = "rt_inspect" /\ ~crashed
  /\ IF rt.resp.ResponseCode = 1 /\ Cardinality(autoTasks) # 0
     THEN LET task == AutoTask(rt.resp, rt.name, rt.source)
              org == IF rt.source \in DOMAIN srcRouter THEN srcRouter[rt.source]
                     ELSE NoOrg IN
          /\ stl' = CallSendTaskList("sample", <<task>>, org)
          /\ rt' = [rt EXCEPT !.calls = Append(@, [org |-> org, tasks |-> <<task>>])]
          /\ hpc' = "stl_begin"
     ELSE /\ stl' = stl /\ rt' = rt
          /\ hpc' = "rt_ret"
  /\ UNCHANGED << keys, keysMutex, crashed, autoTasks, ownOrganization, req, ht, sent, inflight,
                  forwarded, http, watcherVars, lk >>

\* lines 376-392: on a successful upload the automatic tasks are sent to
\* the own organization
RTInspect ==
  /\ hpc = "rt_inspect" /\ ~crashed
  /\ IF rt.resp.ResponseCode = 1 /\ Cardinality(autoTasks) # 0
     THEN LET task == AutoTask(rt.resp, rt.name, rt.source) IN
          /\ stl' = CallSendTaskList("sample", <<task>>, ownOrganization)
          /\ rt' = [rt EXCEPT !.calls = Append(@, [org |-> ownOrganization,
                                                    tasks |-> <<task>>])]
          /\ hpc' = "stl_begin"
     ELSE /\ stl' = stl /\ rt' = rt
          /\ hpc' = "rt_ret"
  /\ UNCHANGED << keys, keysMutex, crashed, autoTasks, ownOrganization, req, ht, sent, inflight,
                  forwarded, http, watcherVars, lk >>

\* What sendTaskList returned surfacing as the error of the round trip
RTAfterSendSurfaces ==
  /\ hpc = "rt_after" /\ ~crashed
  /\ rt' = [rt EXCEPT !.outcome = [returned |-> TRUE, err |-> stl.err,
                                   resultNil |-> stl.resultNil],
                      !.err = stl.err, !.respNil = (stl.err # "")]
  /\ stl' = StlInit
  /\ hpc' = "rt_ret"
  /\ UNCHANGED << keys, keysMutex, crashed, autoTasks, ownOrganization, req, ht, sent, inflight,
                  forwarded, http, watcherVars, lk >>

\* lines 392-398: what sendTaskList returned is dropped, and RoundTrip
\* returns the response of storage with the nil error of the body read
RTAfterSend ==
  /\ hpc = "rt_after" /\ ~crashed
  /\ rt' = [rt EXCEPT !.outcome = [returned |-> TRUE, err |-> stl.err,
                                   resultNil |-> stl.resultNil]]
  /\ stl' = StlInit
  /\ hpc' = "rt_ret"
  /\ UNCHANGED << keys, keysMutex, crashed, autoTasks, ownOrganization, req, ht, sent, inflight,
                  forwarded, http, watcherVars, lk >>

\* RoundTrip has returned (response, err): the reverse proxy answers the
\* client with the response, or with 502 when the round trip failed
HttpRespondSample ==
  /\ hpc = "rt_ret" /\ ~crashed
  /\ http' = IF rt.err # "" \/ rt.respNil
             THEN [status |-> 502, body |-> <<>>]
             ELSE [status |-> 200, body |-> <<rt.body>>]
  /\ hpc' = "answered"
  /\ UNCHANGED << keys, keysMutex, crashed, autoTasks, ownOrganization, req, ht, stl, rt, sent,
                  inflight, forwarded, watcherVars, lk >>

\* The request is over: its goroutine ends, and the next request starts
\* from fresh locals
HttpDone ==
  /\ hpc = "answered" /\ ~crashed
  /\ hpc' = "idle"
  /\ req' = NoReq /\ ht' = HtInit /\ stl' = StlInit /\ rt' = RtInit
  /\ sent' = <<>> /\ inflight' = {} /\ forwarded' = <<>> /\ http' = NoHttp
  /\ UNCHANGED << keys, keysMutex, crashed, autoTasks, ownOrganization, watcherVars, lk >>

(***************************************************************************)
(* Specifications                                                          *)
(***************************************************************************)
\* The key files present at startup are loaded before the server listens
StartupKey(f) == CASE f = "foo" -> 1 [] f = "bar" -> 2 [] f = "blub" -> 3

InitHandler ==
  /\ req = NoReq /\ ht = HtInit /\ stl = StlInit /\ rt = RtInit
  /\ sent = <<>> /\ inflight = {} /\ forwarded = <<>> /\ http = NoHttp
  /\ keysMutex = "free" /\ crashed = FALSE
  /\ wpc = "idle" /\ wev = NoEvent /\ removed = {} /\ lk = LkInit

\* initSourceRouting under a configuration naming its own organization
Started(name) ==
  /\ ownOrganization = FindOwn(name, 1, NoOrg)
  /\ hpc = StartPc(ownOrganization)

InitLoaded ==
  /\ \E present \in SUBSET Fingerprints :
       /\ keys = [f \in present |-> StartupKey(f)]
       /\ lastDone = [f \in Fingerprints |->
                        IF f \in present THEN [op |-> "add", key |-> StartupKey(f)]
                        ELSE [op |-> "none", key |-> 0]]
  /\ loads = Cardinality(Fingerprints)
  /\ eventsLeft = 0

\* Task submission against the keys loaded at startup
Init ==
  /\ InitHandler /\ InitLoaded /\ Started(OwnOrganization)
  /\ autoTasks = {"PEINFO", "YARA"}

SendNext ==
  \/ STLBegin \/ EKLock \/ EKFetch \/ EKUnlock \/ EKLogAndEncrypt
  \/ RTLSend \/ RTLReceive

TaskNext ==
  \/ HTAuthenticate \/ HTParse \/ HTPartition \/ HTNextGroup \/ HTCollect
  \/ HTReturn \/ HttpRespondTask \/ HttpDone

Next == HttpRequestIncomingTask(Batches, TaskUsernames) \/ TaskNext \/ SendNext

Spec == Init /\ [][Next]_vars

\* Sample uploads through the proxy, with or without automatic tasks
InitProxy ==
  /\ InitHandler /\ InitLoaded /\ Started(OwnOrganization)
  /\ autoTasks \in AutoTaskConfigs

SampleNext ==
  \/ HttpRequestIncomingSample \/ RTReadForm \/ RTAuthenticate \/ RTForward
  \/ RTInspect \/ RTAfterSend \/ HttpRespondSample \/ HttpDone

NextProxy == SampleNext \/ SendNext

SpecProxy == InitProxy /\ [][NextProxy]_vars

\* The watcher at work while single tasks are submitted
InitKeys ==
  /\ InitHandler /\ Started(OwnOrganization)
  /\ keys = <<>>
  /\ lastDone = [f \in Fingerprints |-> [op |-> "none", key |-> 0]]
  /\ loads = 0
  /\ eventsLeft = MaxEvents
  /\ autoTasks = {"PEINFO", "YARA"}

WatcherNext ==
  \/ WatchEvent \/ RemoveLock \/ RemoveDelete \/ RemoveUnlock \/ RemoveLog
  \/ AddLoad \/ AddLock \/ AddStore \/ AddUnlock \/ AddLog

SingleTasks == {<<t>> : t \in Task}

NextKeys ==
  \/ HttpRequestIncomingTask(SingleTasks, TaskUsernames)
  \/ TaskNext \/ SendNext \/ WatcherNext

SpecKeys == InitKeys /\ [][NextKeys]_vars

\* Both handlers, under configurations that name the first, the second or
\* none of the organizations as the own one
OwnNames == {"Org1", "Org2", "Nowhere"}

InitCalls ==
  /\ InitHandler /\ InitLoaded
  /\ \E name \in OwnNames : Started(name)
  /\ autoTasks = {"PEINFO", "YARA"}

NextCalls ==
  \/ HttpRequestIncomingTask(SeqsUpTo(Task, MaxCallBatch), TaskUsernames)
  \/ TaskNext \/ SampleNext \/ SendNext

SpecCalls == InitCalls /\ [][NextCalls]_vars

(***************************************************************************)
(* Properties                                                              *)
(***************************************************************************)
Range(seq) == {seq[i] : i \in DOMAIN seq}
Count(x, seq) == Cardinality({i \in DOMAIN seq : seq[i] = x})
Routed(t) == t.Source \in DOMAIN srcRouter
Unrouted(t) == t.Source \notin DOMAIN srcRouter

\* handleTask has authenticated, parsed and partitioned the batch
Partitioned ==
  /\ req.kind = "task" /\ ht.auth.err = "" /\ req.taskOk
  /\ hpc \notin {"idle", "ht_auth", "ht_parse", "ht_partition"}

\* handleTask has returned after dispatching
Returned == Partitioned /\ hpc = "ht_ret"

RECURSIVE SumLen(_, _)
SumLen(lists, orgs) ==
  IF orgs = {} THEN 0
  ELSE LET o == CHOOSE x \in orgs : TRUE
       IN  Len(lists[o]) + SumLen(lists, orgs \ {o})

\* C1: once handleTask has partitioned a batch, every task with a routed
\* source is in the group of srcRouter[Source], as often as in the batch,
\* and in no other group and in no no-route error; every task with an
\* unrouted source is in no group and has one no-route error per occurrence;
\* groups and no-route errors together count exactly the tasks of the batch.
C1_PartitionExact ==
  Partitioned =>
    /\ \A org \in DOMAIN ht.tasklists : org \in 1..Len(Organizations)
    /\ \A t \in Range(ht.tasks) :
         IF Routed(t)
         THEN /\ srcRouter[t.Source] \in DOMAIN ht.tasklists
              /\ \A org \in DOMAIN ht.tasklists :
                   Count(t, ht.tasklists[org]) =
                     IF org = srcRouter[t.Source] THEN Count(t, ht.tasks) ELSE 0
              /\ Count(TaskError(t, NoRouteError), ht.tskerrors) = 0
         ELSE /\ \A org \in DOMAIN ht.tasklists : Count(t, ht.tasklists[org]) = 0
              /\ Count(TaskError(t, NoRouteError), ht.tskerrors) = Count(t, ht.tasks)
    /\ SumLen(ht.tasklists, DOMAIN ht.tasklists)
         + Cardinality({i \in DOMAIN ht.origin : ht.origin[i] = NoOrg})
       = Len(ht.tasks)

\* A batch of three: an unrouted task and two tasks of one organization
C1_Witness ==
  /\ Partitioned /\ hpc = "ht_range" /\ ht.order = <<>>
  /\ Len(ht.tasks) = 3
  /\ \E org \in DOMAIN ht.tasklists : Len(ht.tasklists[org]) = 2
  /\ Len(ht.tskerrors) = 1 /\ ht.tskerrors[1].Error = NoRouteError

\* C2: after a failed authentication handleTask returns the error and a
\* nil error list, with no task parsed or grouped and no request issued,
\* and the client is answered 500.
C2_AuthFailureAbortsBatch ==
  (req.kind = "task" /\ ht.auth.err # "") =>
    /\ hpc \in {"ht_ret", "answered"}
    /\ ht.err = AuthFailed /\ ht.errsNil
    /\ ht.tasks = <<>> /\ ht.tasklists = <<>> /\ ht.tskerrors = <<>>
    /\ ht.order = <<>> /\ sent = <<>> /\ inflight = {}
    /\ (hpc = "answered" => http.status = 500)

C2_Witness ==
  /\ req.kind = "task" /\ hpc = "ht_ret" /\ ht.auth.err # ""
  /\ req.taskOk /\ Len(req.tasks) = 2 /\ \A i \in 1..2 : Routed(req.tasks[i])

\* A group whose transmission failed or whose answer did not decode
GroupFailed(r) == r.err = TransportError \/ (r.err = "" /\ ~r.wellFormed)

\* C3: when handleTask returns after dispatching, its error is nil and
\* every group was handed to sendTaskList once, whatever failed; the error
\* records of a group whose transmission failed or whose answer did not
\* decode are one per task of that group, each carrying a task of it.
C3_FailureStaysInGroup ==
  Returned =>
    /\ ht.err = "" /\ ~ht.errsNil
    /\ ht.pending = {}
    /\ Range(ht.order) = DOMAIN ht.tasklists
    /\ Len(ht.order) = Cardinality(DOMAIN ht.tasklists)
    /\ Len(ht.results) = Len(ht.order)
    /\ \A k \in DOMAIN ht.results :
         LET r == ht.results[k]
             mine == {i \in DOMAIN ht.origin : ht.origin[i] = r.org}
         IN  /\ r.org = ht.order[k]
             /\ GroupFailed(r) =>
                  /\ Cardinality(mine) = Len(ht.tasklists[r.org])
                  /\ \A i \in mine :
                       /\ ht.tskerrors[i].TaskStruct \in Range(ht.tasklists[r.org])
                       /\ srcRouter[ht.tskerrors[i].TaskStruct.Source] = r.org

\* The first group's transmission failed; the second group's request went out
C3_Witness ==
  /\ Returned
  /\ Len(ht.results) = 2
  /\ ht.results[1].err = TransportError
  /\ ht.results[2].err = "" /\ ht.results[2].wellFormed
  /\ Len(sent) = 2 /\ sent[2].org = ht.results[2].org

\* The tasks of the ticket a request carries
TicketTasks(r) == r.Encrypted[2].plain.value.Tasks

\* The organizations of a batch in the order of their first task
RECURSIVE FirstAppearance(_, _)
FirstAppearance(tasks, seen) ==
  IF tasks = <<>> THEN <<>>
  ELSE LET t == Head(tasks) IN
       IF Routed(t) /\ srcRouter[t.Source] \notin seen
       THEN <<srcRouter[t.Source]>> \o FirstAppearance(Tail(tasks), seen \cup {srcRouter[t.Source]})
       ELSE FirstAppearance(Tail(tasks), seen)

\* handleTask returned from a batch for two organizations whose groups
\* both got as far as their request
TwoGroupsRequested ==
  /\ Returned
  /\ Cardinality(DOMAIN ht.tasklists) = 2
  /\ \A k \in DOMAIN ht.results : ht.results[k].err \in {"", TransportError}

TwoRequests ==
  /\ Len(sent) = 2
  /\ sent[1].org # sent[2].org
  /\ \A i \in 1..2 :
       /\ sent[i].org \in DOMAIN ht.tasklists
       /\ sent[i].uri = Organizations[sent[i].org].Uri
       /\ TicketTasks(sent[i]) = ht.tasklists[sent[i].org]
       /\ \A k \in DOMAIN TicketTasks(sent[i]) :
            srcRouter[TicketTasks(sent[i])[k].Source] = sent[i].org

\* C4 (as amended): for a batch with tasks of two organizations, handleTask
\* issues exactly two requests, one per organization, each ticket holding
\* all and only that organization's tasks, in the order in which the range
\* over the map of groups yields them.
C4_TwoRequestsInRangeOrder ==
  TwoGroupsRequested =>
    /\ TwoRequests
    /\ \A i \in 1..2 : sent[i].org = ht.order[i]

\* C4 (as stated): ... in the order in which the groups were formed
C4_TwoRequestsInFormationOrder ==
  TwoGroupsRequested =>
    /\ TwoRequests
    /\ \A i \in 1..2 : sent[i].org = FirstAppearance(ht.tasks, {})[i]

\* Two requests, the first for the organization that appears second
C4_Witness ==
  /\ TwoGroupsRequested
  /\ Len(sent) = 2
  /\ sent[1].org = FirstAppearance(ht.tasks, {})[2]
  /\ Len(ht.tasks) = 3

\* The tasks of the errors that stem from organization g (NoOrg: from no
\* dispatch), in the order of the error list, from error i on
RECURSIVE ErrTasksOf(_, _)
ErrTasksOf(g, i) ==
  IF i > Len(ht.tskerrors) THEN <<>>
  ELSE (IF ht.origin[i] = g THEN <<ht.tskerrors[i].TaskStruct>> ELSE <<>>)
         \o ErrTasksOf(g, i + 1)

Pos(seq, x) == CHOOSE i \in DOMAIN seq : seq[i] = x

RoutedTo(org, tasks) ==
  LET Mine(t) == Routed(t) /\ srcRouter[t.Source] = org IN SelectSeq(tasks, Mine)

\* C5: in handleTask's error list the no-route errors come first, in the
\* order of their tasks in the batch; the errors of the groups follow in
\* the order the groups were dispatched; and the errors made up for a
\* failed group are in the order of that group's tasks in the batch.
C5_ErrorOrder ==
  Partitioned =>
    /\ Len(ht.origin) = Len(ht.tskerrors)
    /\ \A i, j \in DOMAIN ht.origin :
         (i < j /\ ht.origin[j] = NoOrg) => ht.origin[i] = NoOrg
    /\ ErrTasksOf(NoOrg, 1) = SelectSeq(ht.tasks, Unrouted)
    /\ \A i \in DOMAIN ht.tskerrors :
         ht.origin[i] = NoOrg <=> ht.tskerrors[i].Error = NoRouteError
    /\ \A i, j \in DOMAIN ht.origin :
         (i < j /\ ht.origin[i] # NoOrg) =>
            /\ ht.origin[i] \in Range(ht.order) /\ ht.origin[j] \in Range(ht.order)
            /\ Pos(ht.order, ht.origin[i]) <= Pos(ht.order, ht.origin[j])
    /\ \A k \in DOMAIN ht.results :
         (ht.results[k].err # "" \/ ~ht.results[k].wellFormed) =>
            /\ ErrTasksOf(ht.results[k].org, 1) = ht.tasklists[ht.results[k].org]
            /\ ht.tasklists[ht.results[k].org] = RoutedTo(ht.results[k].org, ht.tasks)

\* A no-route error, then the two errors of a failed group of two tasks
C5_Witness ==
  /\ Returned
  /\ Len(ht.tskerrors) = 3
  /\ ht.origin[1] = NoOrg /\ ht.origin[2] # NoOrg /\ ht.origin[3] = ht.origin[2]
  /\ ht.tskerrors[2].TaskStruct # ht.tskerrors[3].TaskStruct
  /\ ht.results[1].err = TransportError
  /\ Routed(ht.tasks[1])

\* handleTask was given one task with a routed source whose public key is
\* not in the key store, and session key, IV and signature could be made
OneTaskWithoutKey ==
  /\ req.kind = "task" /\ ht.auth.err = "" /\ req.taskOk
  /\ Len(req.tasks) = 1 /\ Routed(req.tasks[1])
  /\ req.tasks[1].Source \notin DOMAIN keys
  /\ \A k \in DOMAIN ht.results : ht.results[k].err \notin {RandFailure, SignFailure}

\* C6: a task routed to an organization, with no public key for its
\* source: no request is sent, handleTask returns a nil error and one
\* error record for the task that reports the missing key; the client is
\* answered 200.
C6_MissingKey ==
  OneTaskWithoutKey =>
    /\ sent = <<>> /\ inflight = {}
    /\ hpc \notin {"rtl_send", "rtl_recv"}
    /\ hpc \in {"ht_ret", "answered"} =>
         /\ ht.err = ""
         /\ ht.tskerrors =
              <<TaskError(req.tasks[1], "Error while sending task! " \o KeyNotFound)>>
    /\ hpc = "answered" =>
         /\ http.status = 200
         /\ http.body = WriteErrors(ht.tskerrors, 1)

C6_Witness ==
  /\ OneTaskWithoutKey /\ hpc = "answered"
  /\ req.tasks[1].Source = "foo"
  /\ Len(ht.tskerrors) = 1

\* The handler has read the map for its lookup and not yet used the result
LookedUp == hpc = "ek_unlock"

\* C7: a lookup that started after a remove callback for its fingerprint
\* had returned, with no add writing the fingerprint since, finds no key;
\* a lookup that started after an add callback for its fingerprint had
\* returned, with no callback writing the fingerprint since, finds the key
\* that add loaded; and no lookup finds an entry that had been removed
\* from the map before the lookup started.
C7_LookupSeesCallbacks ==
  LookedUp =>
    /\ (lk.done.op = "remove" /\ "add" \notin lk.since) => ~stl.exists
    /\ (lk.done.op = "add" /\ lk.since = {}) =>
         (stl.exists /\ stl.asymKey = lk.done.key)
    /\ stl.exists => <<lk.f, stl.asymKey>> \notin lk.removed
    /\ ~stl.exists => stl.asymKey = 0

\* The key was loaded, removed and loaded again before the lookup started
C7_Witness ==
  /\ LookedUp
  /\ lk.done.op = "add" /\ lk.since = {}
  /\ \E old \in 1..MaxEvents : old < lk.done.key /\ <<lk.f, old>> \in lk.removed
  /\ stl.exists /\ stl.asymKey = lk.done.key

\* The handler is at a read of the map
HandlerReads == hpc \in {"ek_fetch", "ek_log"}

\* C8 (as stated): no read of the keys map runs while the map is written:
\* the handler is never at a read of the map while the watcher is at a
\* write of it.
C8_NoReadDuringWrite == ~(HandlerReads /\ WatcherWrites)

\* The last of the allowed users with a name
RECURSIVE StoredUser(_, _)
StoredUser(name, u) ==
  IF u = 0 THEN NoUser
  ELSE IF AllowedUsers[u].Name = name THEN AllowedUsers[u] ELSE StoredUser(name, u - 1)

Accepts(username, password) ==
  /\ \E u \in DOMAIN AllowedUsers : AllowedUsers[u].Name = username
  /\ \E u \in DOMAIN AllowedUsers :
       StoredUser(username, Len(AllowedUsers)).PasswordHash
         = BcryptDigest(AllowedUsers[u].PasswordHash[2], password)

\* C9: what authenticate returned to RoundTrip is the stored user and no
\* error when the name is an allowed user's and the password is the one
\* its digest was made from, and else no user and the one error
\* "Authentication failed", for an unknown name as for a wrong password.
C9_Authenticate ==
  (req.kind = "sample" /\ req.bodyOk /\ hpc \notin {"idle", "rt_read", "rt_auth"}) =>
    IF Accepts(req.username, req.password)
    THEN rt.user = StoredUser(req.username, Len(AllowedUsers)) /\ rt.err # AuthFailed
    ELSE rt.user = NoUser /\ rt.err = AuthFailed

\* A request under an unknown name was refused, as one with a wrong password is
C9_Witness ==
  /\ req.kind = "sample" /\ hpc = "rt_ret"
  /\ req.username = "eve"
  /\ rt.err = AuthFailed /\ rt.user = NoUser

\* C10: when the credentials of a proxied request do not authenticate,
\* RoundTrip returns an error and no response, and nothing was forwarded to
\* storage nor sent to an organization.
C10_ProxyFailsClosed ==
  (/\ req.kind = "sample" /\ req.bodyOk
   /\ hpc \notin {"idle", "rt_read", "rt_auth"}
   /\ ~Accepts(req.username, req.password)) =>
    /\ hpc \in {"rt_ret", "answered"}
    /\ rt.err = AuthFailed /\ rt.respNil
    /\ forwarded = <<>> /\ sent = <<>> /\ inflight = {}
    /\ stl = StlInit

\* A known user with a wrong password was refused
C10_Witness ==
  /\ req.kind = "sample" /\ hpc = "rt_ret"
  /\ req.username = "test" /\ req.password = "hunter2"
  /\ rt.err = AuthFailed /\ forwarded = <<>>


(***************************************************************************)
(* The sample proxy                                                        *)
(***************************************************************************)
\* The request RoundTrip handed to storage last
LastForwarded == forwarded[Len(forwarded)]

\* C11: every request RoundTrip forwards to storage carries exactly one
\* user_id query parameter, and its value is the decimal Id of the user the
\* request's credentials authenticate, whatever user_id the client put in
\* its own URL.
C11_ForwardedUserId ==
  \A i \in DOMAIN forwarded :
    /\ Accepts(req.username, req.password)
    /\ "user_id" \in DOMAIN forwarded[i].query
    /\ forwarded[i].query["user_id"] = <<ToString(StoredUser(req.username, Len(AllowedUsers)).Id)>>

C11_Witness ==
  /\ Len(forwarded) = 1
  /\ req.userId = "42" /\ req.username = "test2"
  /\ LastForwarded.query["user_id"] = <<"1">>

\* RoundTrip has got past its look at the answer of storage
Inspected ==
  /\ req.kind = "sample"
  /\ hpc \notin {"idle", "rt_read", "rt_auth", "rt_forward", "rt_inspect"}
  /\ ~rt.respNil

\* Storage reported a stored sample and automatic tasks are configured
UploadStored ==
  /\ rt.body.wellFormed /\ rt.body.value.ResponseCode = 1
  /\ autoTasks # {}

\* The one task the claim describes
ExpectedAutoTask ==
  [PrimaryURI |-> StorageURI \o rt.body.value.Sha256, Filename |-> req.name,
   Source |-> req.source, Download |-> TRUE]

\* C12: RoundTrip calls sendTaskList if and only if storage answered with
\* ResponseCode 1 and AutoTasks is non-empty; then it calls it exactly once,
\* with the own organization (whatever organization the source routes to)
\* and the single task Source = the form's source, Filename = the form's
\* name, Download = true, PrimaryURI = StorageURI followed by the Sha256 of
\* the answer; a request that goes out goes to the own organization's Uri
\* and carries that task.
C12_AutoDispatch ==
  /\ req.kind = "sample" =>
       rt.calls = IF Inspected /\ UploadStored
                  THEN << [org |-> ownOrganization, tasks |-> <<ExpectedAutoTask>>] >>
                  ELSE << >>
  /\ req.kind = "sample" =>
       /\ Organizations[ownOrganization].Name = OwnOrganization
       /\ Len(sent) <= 1
       /\ \A i \in DOMAIN sent :
            /\ sent[i].uri = Organizations[ownOrganization].Uri
            /\ TicketTasks(sent[i]) = <<ExpectedAutoTask>>

\* A sample of a source routed to the other organization: the tasks went to
\* the own one
C12_Witness ==
  /\ Inspected /\ UploadStored /\ hpc = "rt_ret"
  /\ req.source = "blub" /\ srcRouter["blub"] # ownOrganization
  /\ Len(rt.calls) = 1 /\ Len(sent) = 1 /\ sent[1].org = ownOrganization

\* C13: once the call of sendTaskList made for the automatic tasks has
\* returned, whatever it returned (a result, "Public Key not found", a
\* transport error, ...), RoundTrip returns the response of storage with a
\* nil error, and the client is answered with the body storage sent.
C13_AutoDispatchNotSurfaced ==
  (req.kind = "sample" /\ rt.outcome.returned) =>
     /\ hpc \in {"rt_ret", "answered"}
     /\ rt.err = "" /\ ~rt.respNil
     /\ rt.body \in StorageBodies /\ UploadStored
     /\ hpc = "answered" => http = [status |-> 200, body |-> <<rt.body>>]

\* The key of the sample's source was missing, and the client got the
\* answer of storage all the same
C13_Witness ==
  /\ req.kind = "sample" /\ hpc = "answered"
  /\ rt.outcome = [returned |-> TRUE, err |-> KeyNotFound, resultNil |-> TRUE]
  /\ http.status = 200 /\ http.body = <<rt.body>>

(***************************************************************************)
(* The answer to a task submission                                         *)
(***************************************************************************)
\* The submission fails as a whole: its credentials or its batch text
BatchRejected == ~Accepts(req.username, req.password) \/ ~req.taskOk

\* C14: the task handler answers 500 with the text of the error exactly
\* when the credentials were not accepted or the batch did not parse; in
\* every other case, whatever happened to the groups, it answers 200 and its
\* body is, for each error record handleTask returned and in their order,
\* the JSON text of the record followed by two newlines (nothing at all
\* when there are no records).
C14_TaskAnswer ==
  (req.kind = "task" /\ hpc = "answered") =>
     IF BatchRejected
     THEN /\ http.status = 500
          /\ http.body = << IF ~Accepts(req.username, req.password)
                            THEN AuthFailed ELSE "invalid character", "\n" >>
     ELSE /\ http.status = 200
          /\ Len(http.body) = 2 * Len(ht.tskerrors)
          /\ \A i \in DOMAIN ht.tskerrors :
               /\ http.body[2 * i - 1] = JsonText(ht.tskerrors[i])
               /\ http.body[2 * i] = "\n\n"

\* Two groups were dispatched, one did not get through and one was answered
\* with an error record: 200 with two records
C14_Witness ==
  /\ req.kind = "task" /\ hpc = "answered" /\ ~BatchRejected
  /\ Len(ht.results) = 2
  /\ \E i \in DOMAIN ht.results : ht.results[i].err = TransportError
  /\ http.status = 200 /\ Len(http.body) >= 4

(***************************************************************************)
(* requestTaskList                                                         *)
(***************************************************************************)
\* requestTaskList has returned what it decrypted
Decrypted == hpc \in {"ht_collect", "rt_after"} /\ ~stl.resultNil

\* The request the current call of sendTaskList issued
LastSent == sent[Len(sent)]

\* The exclusive or of two bytes, bit by bit
RECURSIVE ByteXor(_, _)
ByteXor(a, b) ==
  IF a = 0 /\ b = 0 THEN 0
  ELSE (((a % 2) + (b % 2)) % 2) + 2 * ByteXor(a \div 2, b \div 2)

OneBit(x) == x \in {1, 2, 4, 8, 16, 32, 64, 128}

\* C15: the IV in the request's IV parameter is the IV the ticket in the
\* Encrypted parameter was encrypted under; the IV the response is
\* decrypted with has the same bytes but for the first, which differs from
\* the request's in exactly one bit; and request and decryption use the
\* same session key.
C15_ResponseIV ==
  Decrypted =>
    LET requestIV == LastSent.IV[2]
        decryptIV == stl.et.IV
    IN  /\ LastSent.IV = Base64(requestIV)
        /\ LastSent.Encrypted[2].iv = requestIV
        /\ Len(requestIV) = IVLen /\ Len(decryptIV) = IVLen
        /\ \A i \in 2..IVLen : decryptIV[i] = requestIV[i]
        /\ decryptIV[1] \in 0..255
        /\ OneBit(ByteXor(decryptIV[1], requestIV[1]))
        /\ LastSent.Encrypted[2].key = stl.symKey
        /\ LastSent.EncryptedKey[2].wrapped = stl.symKey

\* The first IV byte was 255, and the answer made under 254 decrypted
C15_Witness ==
  /\ Decrypted /\ stl.result.wellFormed
  /\ LastSent.IV[2][1] = 255 /\ stl.et.IV[1] = 254

\* sendTaskList has returned to its caller
SendReturned == hpc \in {"ht_collect", "rt_after"}

\* C16: when the request to the organization failed in the network, or the
\* read of the response body failed, sendTaskList returns a non-nil error
\* and no result bytes.
C16_SendFailuresReturnError ==
  (SendReturned /\ (stl.err = TransportError \/ stl.readErr # "")) =>
     (stl.err # "" /\ stl.resultNil)

(***************************************************************************)
(* Dispatch, one group after the other                                     *)
(***************************************************************************)
\* C17: during one call of handleTask at most one request to an
\* organization is awaiting its response, the handler issues nothing while
\* it waits, a group is handed to sendTaskList only after the one before it
\* has returned, and no organization is sent two requests.
C17_OneAtATime ==
  req.kind = "task" =>
    /\ Cardinality(inflight) <= 1
    /\ inflight # {} => (hpc = "rtl_recv" /\ inflight = {LastSent})
    /\ Len(ht.order) - Len(ht.results) \in {0, 1}
    /\ Len(ht.order) > Len(ht.results) <=>
         hpc \in {"stl_begin", "ek_lock", "ek_fetch", "ek_unlock", "ek_log",
                  "rtl_send", "rtl_recv", "ht_collect"}
    /\ \A i, j \in DOMAIN sent : i # j => sent[i].org # sent[j].org
    /\ \A i, j \in DOMAIN ht.order : i # j => ht.order[i] # ht.order[j]

\* The second group's request is awaiting its response; the first group's
\* was answered before
C17_Witness ==
  /\ req.kind = "task" /\ hpc = "rtl_recv"
  /\ Len(sent) = 2 /\ Len(ht.results) = 1 /\ ht.results[1].err = ""
  /\ inflight = {sent[2]}

(***************************************************************************)
(* The key of a group                                                      *)
(***************************************************************************)
\* sendTaskList has returned for a group whose first task's source has no
\* key, the random bytes and the signature having been made
FirstKeyAbsent ==
  /\ req.kind = "task" /\ hpc = "ht_collect"
  /\ stl.tasks[1].Source \notin DOMAIN keys
  /\ stl.err \notin {RandFailure, SignFailure}

\* C18: every request sendTaskList issues names, as KeyFingerprint, the
\* Source of the first task of its ticket, and wraps the session key with
\* the public key stored for that source, whatever the sources of the
\* other tasks; when no key is stored for the first task's source the call
\* fails with "Public Key not found" and sends nothing, whatever keys are
\* stored for the other tasks' sources.
C18_FirstTaskKey ==
  /\ \A i \in DOMAIN sent :
       LET first == TicketTasks(sent[i])[1].Source IN
         /\ sent[i].KeyFingerprint = first
         /\ first \in DOMAIN keys
         /\ sent[i].EncryptedKey = Base64(RsaEncrypt(sent[i].Encrypted[2].key, keys[first]))
  /\ FirstKeyAbsent =>
       /\ stl.err = KeyNotFound /\ stl.resultNil
       /\ \A i \in DOMAIN sent : sent[i].org # stl.org

\* A group of a foo task and a bar task, in this order: the key of bar is
\* there, the key of foo is not, and the group failed
C18_Witness ==
  /\ FirstKeyAbsent
  /\ Len(stl.tasks) = 2
  /\ stl.tasks[1].Source = "foo" /\ stl.tasks[2].Source = "bar"
  /\ "bar" \in DOMAIN keys
  /\ stl.err = KeyNotFound

(***************************************************************************)
(* The URL of a proxied request                                            *)
(***************************************************************************)
\* C19: the package-level storageURI is the parsed conf.StorageURI, and the
\* URL the sample handler leaves in a request before it calls the proxy is
\* that URL.
C19_RewrittenToStorage ==
  req.kind = "sample" =>
    /\ storageURI = ParseURL(StorageURI)
    /\ rt.reqURL = ParseURL(StorageURI)

(***************************************************************************)
(* The arguments of sendTaskList                                           *)
(***************************************************************************)
\* sendTaskList is being entered
SendCalled == hpc = "stl_begin"

\* C20: whenever sendTaskList is entered its task list holds a task and its
\* organization is one of the configured ones, so that no handler panics
\* in it (a panic leaves the client without a status): every group of handleTask
\* holds a task, a batch that is empty or has no routed task is answered
\* without any call, RoundTrip passes one task, and no handler runs unless
\* startup found the own organization.
C20_SendArguments ==
  /\ SendCalled =>
       /\ Len(stl.tasks) >= 1
       /\ stl.org \in DOMAIN Organizations
       /\ stl.caller = "sample" => (Len(stl.tasks) = 1 /\ stl.org = ownOrganization)
  /\ \A org \in DOMAIN ht.tasklists :
       org \in DOMAIN Organizations /\ Len(ht.tasklists[org]) >= 1
  /\ (req.kind = "task" /\ hpc \in {"ht_ret", "answered"}
        /\ \A i \in DOMAIN req.tasks : Unrouted(req.tasks[i]))
       => (ht.order = <<>> /\ sent = <<>>)
  /\ req.kind # "none" => ownOrganization \in DOMAIN Organizations
  /\ hpc = "fatal" <=> ownOrganization = NoOrg
  /\ hpc = "answered" => http.status # 0

\* A batch of a task without a route and a task with one: the group handed
\* to sendTaskList holds the one task
C20_Witness ==
  /\ SendCalled /\ stl.caller = "task"
  /\ Len(req.tasks) = 2 /\ Unrouted(req.tasks[1]) /\ Routed(req.tasks[2])
  /\ stl.tasks = <<req.tasks[2]>>
  /\ ownOrganization = 2

====
